---- MODULE Spec2Model ----
(***************************************************************************)
(* Model of the object-aware inpainting scripts:                           *)
(*   scripts/utils.py               ImageAugmentation (extend_image,       *)
(*                                  generate_mask_from_bbox, invert_mask)  *)
(*   scripts/inpainting_pipeline.py AutoPaintingPipeline.run_inference and *)
(*                                  the inference() entry point            *)
(*                                                                         *)
(* inpainting_pipeline.py carries unresolved merge markers.  The model     *)
(* follows the HEAD side of every conflict (lines 9, 31-45, 80-99).  On    *)
(* that side lru_cache (line 22) is not imported, the class it wraps is    *)
(* built from unhashable PIL images (82-88) and the call at 91-97 omits    *)
(* the num_images argument of line 32.  Name binding is not modelled: the  *)
(* calls are taken to reach the bodies they name, so that the control and  *)
(* data flow the file describes can be examined at all.                    *)
(*                                                                         *)
(* Python floats are IEEE-754 doubles.  extend_image divides, multiplies   *)
(* and truncates them, and the truncation is sensitive to the last bit     *)
(* (5 * (1/3) * 0.6 truncates to 0, not 1), so the doubles are modelled    *)
(* bit-exactly: a significand of 53 bits held in 14-bit limbs, least       *)
(* significant first, with round-to-nearest-even after every operation.    *)
(***************************************************************************)
EXTENDS Integers, Naturals, Sequences, FiniteSets, TLC

VARIABLES pc, err, image, cfg, extended_image, bboxes, mask_image, output, files, log

vars == <<pc, err, image, cfg, extended_image, bboxes, mask_image, output, files, log>>

----------------------------------------------------------------------------
(* Bounds of the model *)

\* source images of the direct extend_image calls have sides 0..MaxOrig
MaxOrig == 5
\* targets of the direct extend_image calls range over -1..MaxTarget
MaxTarget == 4
\* masks handed directly to invert_mask have at most MaxMaskPixels pixels
MaxMaskPixels == 2
\* the inference() run: configured target sides 1..MaxCfg
MaxCfg == 4
\* the inference() run: sides of the opened file 1..MaxFile
MaxFile == 4
\* the detector returns at most MaxBoxes boxes
MaxBoxes == 2

----------------------------------------------------------------------------
(* IEEE-754 double arithmetic, as used by lines 64-66 of utils.py *)

LIMB_BITS == 14
MANT_BITS == 53
BASE == 2^LIMB_BITS

Abs(n) == IF n < 0 THEN -n ELSE n
Sgn(n) == IF n < 0 THEN -1 ELSE 1

RECURSIVE Norm(_)
Norm(q) == IF Len(q) > 0 /\ q[Len(q)] = 0 THEN Norm(SubSeq(q, 1, Len(q) - 1)) ELSE q

RECURSIVE SmallBitLen(_)
SmallBitLen(n) == IF n = 0 THEN 0 ELSE 1 + SmallBitLen(n \div 2)

BitLen(q) == IF Len(q) = 0 THEN 0 ELSE LIMB_BITS * (Len(q) - 1) + SmallBitLen(q[Len(q)])

Limb(q, i) == IF i >= 1 /\ i <= Len(q) THEN q[i] ELSE 0

ShiftRight(q, d) ==
    LET a == d \div LIMB_BITS
        b == d % LIMB_BITS
        n == IF Len(q) > a THEN Len(q) - a ELSE 0
    IN  Norm([i \in 1..n |->
                (Limb(q, i + a) \div 2^b) + (Limb(q, i + a + 1) % 2^b) * 2^(LIMB_BITS - b)])

ShiftLeft(q, d) ==
    LET a == d \div LIMB_BITS
        b == d % LIMB_BITS
        n == Len(q) + a + 1
    IN  Norm([i \in 1..n |->
                IF i <= a THEN 0
                ELSE (Limb(q, i - a) % 2^(LIMB_BITS - b)) * 2^b
                     + (Limb(q, i - a - 1) \div 2^(LIMB_BITS - b))])

Bit(q, k) == (Limb(q, k \div LIMB_BITS + 1) \div 2^(k % LIMB_BITS)) % 2

LowNonZero(q, d) ==
    \/ \E i \in 1..(d \div LIMB_BITS) : Limb(q, i) # 0
    \/ Limb(q, d \div LIMB_BITS + 1) % 2^(d % LIMB_BITS) # 0

RECURSIVE AddSmall(_, _)
AddSmall(q, c) ==
    IF c = 0 THEN q
    ELSE IF Len(q) = 0 THEN <<c>>
    ELSE <<(q[1] + c) % BASE>> \o AddSmall(Tail(q), (q[1] + c) \div BASE)

RECURSIVE ColSum(_, _, _, _)
ColSum(a, b, k, i) ==
    IF i > Len(a) THEN 0
    ELSE Limb(a, i) * Limb(b, k - i + 1) + ColSum(a, b, k, i + 1)

RECURSIVE MulBigC(_, _, _, _)
MulBigC(a, b, k, c) ==
    IF k > Len(a) + Len(b) THEN <<>>
    ELSE LET s == ColSum(a, b, k, 1) + c
         IN  <<s % BASE>> \o MulBigC(a, b, k + 1, s \div BASE)

MulBig(a, b) == Norm(MulBigC(a, b, 1, 0))

\* quotient and remainder of q by a small k, most significant limb first
RECURSIVE DivSmallR(_, _, _)
DivSmallR(q, k, i) ==
    IF i > Len(q) THEN [quo |-> <<>>, rem |-> 0]
    ELSE LET hi == DivSmallR(q, k, i + 1)
             cur == hi.rem * BASE + q[i]
         IN  [quo |-> <<cur \div k>> \o hi.quo, rem |-> cur % k]

DivSmall(q, k) == LET r == DivSmallR(q, k, 1) IN [quo |-> Norm(r.quo), rem |-> r.rem]

RECURSIVE ToInt(_)
ToInt(q) == IF Len(q) = 0 THEN 0 ELSE q[1] + BASE * ToInt(Tail(q))

FromNat(n) == Norm(<<n % BASE, n \div BASE>>)

\* a double is sign s, significand m (53 bits, or empty for 0) and exponent e:
\* its value is s * m * 2^e
FZero == [s |-> 1, m |-> <<>>, e |-> 0]

\* q * 2^e, plus a non-zero tail below it when sticky, rounded to nearest even
Round53(s, q, e, sticky) ==
    LET L == BitLen(q) IN
    IF L = 0 THEN FZero
    ELSE IF L <= MANT_BITS
    THEN [s |-> s, m |-> ShiftLeft(q, MANT_BITS - L), e |-> e - (MANT_BITS - L)]
    ELSE LET d  == L - MANT_BITS
             m0 == ShiftRight(q, d)
             up == Bit(q, d - 1) = 1
                   /\ (LowNonZero(q, d - 1) \/ sticky \/ Bit(m0, 0) = 1)
             m1 == IF up THEN AddSmall(m0, 1) ELSE m0
         IN  IF BitLen(m1) > MANT_BITS
             THEN [s |-> s, m |-> ShiftRight(m1, 1), e |-> e + d + 1]
             ELSE [s |-> s, m |-> m1, e |-> e + d]

\* int -> float conversion of an operand
FromInt(n) == Round53(Sgn(n), FromNat(Abs(n)), 0, FALSE)

\* n / d on ints (true division), d > 0
FDiv(n, d) ==
    LET r == DivSmall(<<0, 0, 0, 0, 0>> \o FromNat(Abs(n)), d)
    IN  Round53(Sgn(n), r.quo, -5 * LIMB_BITS, r.rem # 0)

FMul(x, y) == Round53(x.s * y.s, MulBig(x.m, y.m), x.e + y.e, FALSE)

RECURSIVE CmpMag(_, _, _)
CmpMag(a, b, i) ==
    IF i = 0 THEN 0
    ELSE IF Limb(a, i) < Limb(b, i) THEN -1
    ELSE IF Limb(a, i) > Limb(b, i) THEN 1
    ELSE CmpMag(a, b, i - 1)

MagLess(x, y) ==
    IF Len(x.m) = 0 THEN Len(y.m) # 0
    ELSE IF Len(y.m) = 0 THEN FALSE
    ELSE IF x.e # y.e THEN x.e < y.e
    ELSE CmpMag(x.m, y.m, Len(x.m)) < 0

FLess(x, y) ==
    LET xs == IF Len(x.m) = 0 THEN 0 ELSE x.s
        ys == IF Len(y.m) = 0 THEN 0 ELSE y.s
    IN  IF xs # ys THEN xs < ys
        ELSE IF xs = 1 THEN MagLess(x, y)
        ELSE IF xs = -1 THEN MagLess(y, x)
        ELSE FALSE

\* min(a, b) of two floats: b when b < a, else a
FMin(x, y) == IF FLess(y, x) THEN y ELSE x

FMax(x, y) == IF FLess(x, y) THEN y ELSE x

\* int(x): truncation toward zero
FTrunc(x) ==
    IF Len(x.m) = 0 THEN 0
    ELSE x.s * ToInt(IF x.e >= 0 THEN ShiftLeft(x.m, x.e) ELSE ShiftRight(x.m, -(x.e)))

----------------------------------------------------------------------------
(* Values *)

NoValue == [kind |-> "none"]

Raised(exc) == [kind |-> "raised", exc |-> exc]

\* a PIL image: its size, where it comes from, and for a composited image the
\* size and offset of the region pasted on the white canvas
FileImage(w, h) ==
    [kind |-> "image", w |-> w, h |-> h, origin |-> "file",
     background |-> "none", inner |-> <<w, h>>, paste |-> <<0, 0>>]

Pixels(w, h) == (0..(w - 1)) \X (0..(h - 1))

\* a mask image: mode "1" (bilevel, pixels 0 or 255), "L" (8-bit) or "RGB"
Mask(mode, w, h, px) == [kind |-> "mask", mode |-> mode, w |-> w, h |-> h, px |-> px]

\* roi_scale is a float literal; <<n, d>> stands for the double nearest n/d
ROI_DEFAULT == <<3, 5>>

Config(tw, th, roi) == [target_width |-> tw, target_height |-> th, roi_scale |-> roi]

----------------------------------------------------------------------------
(* ImageAugmentation.extend_image, utils.py 59-72 *)

\* a mutation of Scale: the larger of the two ratios
ScaleMax(original_width, original_height, target_width, target_height) ==
    FMax(FDiv(target_width, original_width), FDiv(target_height, original_height))

\* line 64
Scale(original_width, original_height, target_width, target_height) ==
    FMin(FDiv(target_width, original_width), FDiv(target_height, original_height))

\* lines 65, 66: int(original * scale * self.roi_scale)
NewDim(original, scale, roi_scale) ==
    FTrunc(FMul(FMul(FromInt(original), scale), FDiv(roi_scale[1], roi_scale[2])))

\* a mutation of PasteOffset: the halving is forgotten
PasteOffsetFull(target, new) == target - new

\* lines 69, 70: floor division
PasteOffset(target, new) == (target - new) \div 2

\* Image.resize, line 67: a side below 1 raises ValueError
\* ("height and width must be > 0")
ResizeRaises(new_width, new_height) == new_width < 1 \/ new_height < 1

\* Image.new, line 68: a negative side raises ValueError
\* ("Width and height must be >= 0")
NewRaises(target_width, target_height) == target_width < 0 \/ target_height < 0

extend_image(img, c) ==
    IF img.w = 0 \/ img.h = 0
    THEN Raised("ZeroDivisionError")
    ELSE LET scale      == Scale(img.w, img.h, c.target_width, c.target_height)
             new_width  == NewDim(img.w, scale, c.roi_scale)
             new_height == NewDim(img.h, scale, c.roi_scale)
         IN  IF ResizeRaises(new_width, new_height) \/ NewRaises(c.target_width, c.target_height)
             THEN Raised("ValueError")
             ELSE [kind |-> "image", w |-> c.target_width, h |-> c.target_height,
                   origin |-> "extended", background |-> "white",
                   inner |-> <<new_width, new_height>>,
                   paste |-> <<PasteOffset(c.target_width, new_width),
                               PasteOffset(c.target_height, new_height)>>]

----------------------------------------------------------------------------
(* ImageAugmentation.invert_mask, utils.py 104-111 *)

\* a mutation of ConvertLPixel: the mask is made bilevel on the way
ConvertLPixelBilevel(mode, v) ==
    IF mode = "RGB"
    THEN (v[1] * 19595 + v[2] * 38470 + v[3] * 7471 + 32768) \div 65536
    ELSE IF v >= 128 THEN 255 ELSE 0

\* Image.convert("L"), line 110: "1" and "L" keep the pixel value, "RGB" takes
\* the ITU-R 601-2 luma in 16-bit fixed point
ConvertLPixel(mode, v) ==
    IF mode = "RGB"
    THEN (v[1] * 19595 + v[2] * 38470 + v[3] * 7471 + 32768) \div 65536
    ELSE v

\* a mutation of InvertPixel: two's-complement negation in 8 bits
InvertPixelNeg(v) == (256 - v) % 256

\* ImageOps.invert on an "L" image, line 110
InvertPixel(v) == 255 - v

invert_mask(m) ==
    Mask("L", m.w, m.h, [p \in Pixels(m.w, m.h) |-> InvertPixel(ConvertLPixel(m.mode, m.px[p]))])

----------------------------------------------------------------------------
(* Inputs *)

Rois == {<<1, 2>>, ROI_DEFAULT, <<1, 1>>}

\* the sizes and settings of the worked example of the design document
ExampleImage == FileImage(800, 600)
ExampleConfig == Config(1024, 1024, ROI_DEFAULT)

ExtendInputs ==
    ({FileImage(w, h) : w \in 0..MaxOrig, h \in 0..MaxOrig}
        \X {Config(tw, th, r) : tw \in (-1)..MaxTarget, th \in (-1)..MaxTarget, r \in Rois})
    \cup {<<ExampleImage, ExampleConfig>>}

Shapes == {s \in (1..MaxMaskPixels) \X (1..MaxMaskPixels) : s[1] * s[2] <= MaxMaskPixels}

PixelValues(mode) ==
    IF mode = "1" THEN {0, 255}
    ELSE IF mode = "L" THEN {0, 1, 128, 255}
    ELSE {<<0, 0, 0>>, <<255, 255, 255>>, <<255, 0, 0>>, <<10, 200, 30>>}

MaskInputs ==
    UNION {{Mask(mode, s[1], s[2], px) : px \in [Pixels(s[1], s[2]) -> PixelValues(mode)]} :
             mode \in {"1", "L", "RGB"}, s \in Shapes}

----------------------------------------------------------------------------
(* Steps *)

Fail(exc) == pc' = "failed" /\ err' = exc

Event(stage, in, out) == [stage |-> stage, in |-> in, out |-> out]

\* inference_pipeline.py 76 (utils.py 117): extended_image = augmenter.extend_image(image)
ExtendImage ==
    /\ pc = "opened"
    /\ LET r == extend_image(image, cfg)
       IN  /\ log' = Append(log, Event("Compositor", image, r))
           /\ IF r.kind = "raised"
              THEN Fail(r.exc) /\ UNCHANGED extended_image
              ELSE pc' = "extended" /\ extended_image' = r /\ UNCHANGED err
    /\ UNCHANGED <<image, cfg, bboxes, mask_image, output, files>>

\* inference_pipeline.py 78 (utils.py 119): mask_image = augmenter.invert_mask(mask_image)
InvertTo(to) ==
    /\ mask_image' = invert_mask(mask_image)
    /\ log' = Append(log, Event("Inverter", mask_image, mask_image'))
    /\ pc' = to
    /\ UNCHANGED <<err, image, cfg, extended_image, bboxes, output, files>>

InvertMask ==
    /\ pc = "segmented"
    /\ InvertTo("inverted")

\* a caller inverting the inverted mask again
InvertAgain ==
    /\ pc = "inverted"
    /\ InvertTo("reinverted")

----------------------------------------------------------------------------
(* Direct calls of extend_image on arbitrary images and settings *)

InitExtend ==
    /\ pc = "opened"
    /\ err = "none"
    /\ \E x \in ExtendInputs : image = x[1] /\ cfg = x[2]
    /\ extended_image = NoValue
    /\ bboxes = NoValue
    /\ mask_image = NoValue
    /\ output = NoValue
    /\ files = {}
    /\ log = <<>>

NextExtend == ExtendImage

SpecExtend == InitExtend /\ [][NextExtend]_vars

(* Direct calls of invert_mask on arbitrary masks *)

InitInvert ==
    /\ pc = "segmented"
    /\ err = "none"
    /\ image = NoValue
    /\ cfg = NoValue
    /\ extended_image = NoValue
    /\ bboxes = NoValue
    /\ mask_image \in MaskInputs
    /\ output = NoValue
    /\ files = {}
    /\ log = <<>>

NextInvert == InvertMask \/ InvertAgain

SpecInvert == InitInvert /\ [][NextInvert]_vars

----------------------------------------------------------------------------
(* ImageAugmentation.generate_mask_from_bbox, utils.py 74-100 *)

\* boxes the detector may report on a composited image, as [x_min, y_min, x_max, y_max]:
\* the pasted region and the whole canvas
BoxesOn(img) ==
    {<<img.paste[1], img.paste[2], img.paste[1] + img.inner[1], img.paste[2] + img.inner[2]>>,
     <<0, 0, img.w, img.h>>}

RECURSIVE SeqsUpTo(_, _)
SeqsUpTo(S, n) ==
    IF n = 0 THEN {<<>>}
    ELSE SeqsUpTo(S, n - 1) \cup {Append(q, x) : q \in {r \in SeqsUpTo(S, n - 1) : Len(r) = n - 1}, x \in S}

\* results[0].boxes.xyxy.tolist(), line 89
BoxLists(img) == SeqsUpTo(BoxesOn(img), MaxBoxes)

InBox(p, box) == p[1] >= box[1] /\ p[1] < box[3] /\ p[2] >= box[2] /\ p[2] < box[4]

\* masks the segmenter may return for a box: nothing, everything, the inside of the box.
\* post_process_masks scales to the image's own size and Image.fromarray of the
\* boolean array gives a mode "1" image (lines 94-99)
SegMasks(img, box) ==
    {Mask("1", img.w, img.h, [p \in Pixels(img.w, img.h) |-> IF p \in S THEN 255 ELSE 0]) :
        S \in {{}, Pixels(img.w, img.h), {p \in Pixels(img.w, img.h) : InBox(p, box.xyxy)}}}

\* lines 85-87: YOLO(...), SamProcessor.from_pretrained, SamModel.from_pretrained
LoadModels ==
    /\ pc = "extended"
    /\ \E ok \in BOOLEAN :
          IF ok THEN pc' = "models_loaded" /\ UNCHANGED err ELSE Fail("OSError")
    /\ UNCHANGED <<image, cfg, extended_image, bboxes, mask_image, output, files, log>>

\* the box taken from the detector's list, line 90: bboxes[0]
FirstBox(boxes) ==
    IF Len(boxes) = 0 THEN Raised("IndexError") ELSE [kind |-> "box", xyxy |-> boxes[1]]

\* lines 88-90: the detector runs on the image it is given; the first box is taken
Detect ==
    /\ pc = "models_loaded"
    /\ \E ok \in BOOLEAN :
          IF ok
          THEN \E boxes \in BoxLists(extended_image) :
                  /\ bboxes' = [kind |-> "boxes", list |-> boxes]
                  /\ log' = Append(log, Event("Locator", extended_image, FirstBox(boxes)))
                  /\ IF Len(boxes) = 0
                     THEN Fail("IndexError")
                     ELSE pc' = "located" /\ UNCHANGED err
          ELSE /\ log' = Append(log, Event("Locator", extended_image, Raised("RuntimeError")))
               /\ Fail("RuntimeError")
               /\ UNCHANGED bboxes
    /\ UNCHANGED <<image, cfg, extended_image, mask_image, output, files>>

\* lines 91-100: the segmenter runs on the image with the first box as its prompt
Segment ==
    /\ pc = "located"
    /\ LET in == [image |-> extended_image, box |-> FirstBox(bboxes.list)] IN
       \E ok \in BOOLEAN :
          IF ok
          THEN \E m \in SegMasks(extended_image, FirstBox(bboxes.list)) :
                  /\ mask_image' = m
                  /\ log' = Append(log, Event("Synthesizer", in, m))
                  /\ pc' = "segmented"
                  /\ UNCHANGED err
          ELSE /\ log' = Append(log, Event("Synthesizer", in, Raised("RuntimeError")))
               /\ Fail("RuntimeError")
               /\ UNCHANGED mask_image
    /\ UNCHANGED <<image, cfg, extended_image, bboxes, output, files>>

----------------------------------------------------------------------------
(* inpainting_pipeline.py *)

\* load_pipeline, lines 14-20, called at line 70
LoadPipeline ==
    /\ pc = "start"
    /\ \E ok \in BOOLEAN :
          IF ok THEN pc' = "pipeline_loaded" /\ UNCHANGED err ELSE Fail("OSError")
    /\ UNCHANGED <<image, cfg, extended_image, bboxes, mask_image, output, files, log>>

FileImages == {FileImage(w, h) : w \in 1..MaxFile, h \in 1..MaxFile}

\* lines 73-75: the augmenter is built (roi_scale keeps its default) and the file opened
OpenImage ==
    /\ pc = "pipeline_loaded"
    /\ \E ok \in BOOLEAN :
          IF ok
          THEN \E img \in FileImages : image' = img /\ pc' = "opened" /\ UNCHANGED err
          ELSE Fail("FileNotFoundError") /\ UNCHANGED image
    /\ UNCHANGED <<cfg, extended_image, bboxes, mask_image, output, files, log>>

\* a mutation of InvokerArgs: the opened file is passed instead of the composited image
InvokerArgsRaw(img, mask, c) ==
    [image |-> image, mask_image |-> mask, height |-> c.target_height, width |-> c.target_width]

\* AutoPaintingPipeline.__init__ (24-29) and the arguments of self.pipeline(...) (33-44)
InvokerArgs(img, mask, c) ==
    [image |-> img, mask_image |-> mask, height |-> c.target_height, width |-> c.target_width]

\* .images[0], line 45: an image of the requested width and height
OutputImage(args) ==
    [kind |-> "image", w |-> args.width, h |-> args.height, origin |-> "diffusion",
     background |-> "none", inner |-> <<args.width, args.height>>, paste |-> <<0, 0>>]

\* lines 82-97 and run_inference, 32-65: the diffusion pipeline is called with the
\* image and the mask the object was built with; nothing is compared beforehand
RunInference ==
    /\ pc = "inverted"
    /\ LET args == InvokerArgs(extended_image, mask_image, cfg) IN
       \E ok \in BOOLEAN :
          IF ok
          THEN /\ output' = OutputImage(args)
               /\ log' = Append(log, Event("Invoker", args, output'))
               /\ pc' = "inferred"
               /\ UNCHANGED err
          ELSE /\ log' = Append(log, Event("Invoker", args, Raised("RuntimeError")))
               /\ Fail("RuntimeError")
               /\ UNCHANGED output
    /\ UNCHANGED <<image, cfg, extended_image, bboxes, mask_image, files>>

\* Image.save: the file is written, or the write raises; a failed write is taken
\* to leave no file behind
Save(name, to) ==
    /\ \E ok \in BOOLEAN :
          IF ok
          THEN files' = files \cup {name} /\ pc' = to /\ UNCHANGED err
          ELSE Fail("OSError") /\ UNCHANGED files
    /\ UNCHANGED <<image, cfg, extended_image, bboxes, mask_image, output, log>>

\* line 109
SaveOutput ==
    /\ pc = "inferred"
    /\ Save("output.jpg", "output_saved")

\* line 110
SaveMask ==
    /\ pc = "output_saved"
    /\ Save("mask.jpg", "done")

\* inference(), lines 67-110
Init ==
    /\ pc = "start"
    /\ err = "none"
    /\ image = NoValue
    /\ cfg \in {Config(tw, th, ROI_DEFAULT) : tw \in 1..MaxCfg, th \in 1..MaxCfg}
    /\ extended_image = NoValue
    /\ bboxes = NoValue
    /\ mask_image = NoValue
    /\ output = NoValue
    /\ files = {}
    /\ log = <<>>

Next ==
    \/ LoadPipeline
    \/ OpenImage
    \/ ExtendImage
    \/ LoadModels
    \/ Detect
    \/ Segment
    \/ InvertMask
    \/ RunInference
    \/ SaveOutput
    \/ SaveMask

Spec == Init /\ [][Next]_vars

(* Direct use of AutoPaintingPipeline with an arbitrary image and mask *)

RunMasks ==
    {Mask("L", w, h, [p \in Pixels(w, h) |-> v]) : w \in 1..MaxCfg, h \in 1..MaxCfg, v \in {0, 255}}

InitRun ==
    /\ pc = "inverted"
    /\ err = "none"
    /\ image = NoValue
    /\ cfg \in {Config(tw, th, ROI_DEFAULT) : tw \in 1..MaxCfg, th \in 1..MaxCfg}
    /\ extended_image \in {FileImage(w, h) : w \in 1..MaxCfg, h \in 1..MaxCfg}
    /\ bboxes = NoValue
    /\ mask_image \in RunMasks
    /\ output = NoValue
    /\ files = {}
    /\ log = <<>>

NextRun == RunInference

SpecRun == InitRun /\ [][NextRun]_vars

----------------------------------------------------------------------------
(* Properties *)

TargetW == cfg.target_width
TargetH == cfg.target_height

Called(stage) == \E i \in DOMAIN log : log[i].stage = stage

RoiInUnit == cfg.roi_scale[1] > 0 /\ cfg.roi_scale[1] <= cfg.roi_scale[2]

\* C1: for a source of positive size, positive targets and roi_scale in (0, 1],
\* extend_image returns without error an image of exactly the target size
C1_ExtendTotal ==
    (pc # "opened" /\ image.w > 0 /\ image.h > 0 /\ TargetW > 0 /\ TargetH > 0 /\ RoiInUnit)
        => (/\ pc = "extended"
            /\ err = "none"
            /\ extended_image.w = TargetW
            /\ extended_image.h = TargetH)

\* C2: with roi_scale <= 1 the resized image fits the canvas and is pasted wholly
\* inside it, also for a source larger than the target on both sides
C2_NoCrop ==
    (pc = "extended" /\ RoiInUnit)
        => (/\ extended_image.inner[1] <= TargetW
            /\ extended_image.inner[2] <= TargetH
            /\ extended_image.paste[1] >= 0
            /\ extended_image.paste[2] >= 0
            /\ extended_image.paste[1] + extended_image.inner[1] <= TargetW
            /\ extended_image.paste[2] + extended_image.inner[2] <= TargetH)

C2_Witness ==
    /\ pc = "extended"
    /\ image.w > TargetW
    /\ image.h > TargetH
    /\ cfg.roi_scale = <<1, 1>>
    /\ extended_image.inner[1] = TargetW

\* division truncated toward zero
TruncDiv(a, b) == Sgn(a) * (Abs(a) \div b)

About(a, b) == Abs(a - b) <= 1

ClaimedNew(original) ==
    LET rw == FDiv(TargetW, image.w)
        rh == FDiv(TargetH, image.h)
        scale == IF FLess(rh, rw) THEN rh ELSE rw
    IN  FTrunc(FMul(FMul(FromInt(original), scale), FDiv(cfg.roi_scale[1], cfg.roi_scale[2])))

\* C3: the resized size is trunc(original * min(tw/ow, th/oh) * roi_scale) on each
\* side, pasted on a white canvas at the truncated half of what is left; 800x600 on
\* 1024x1024 at 0.6 gives about 614x461 at about (205, 281)
C3_ExtendGeometry ==
    pc = "extended"
        => (/\ extended_image.background = "white"
            /\ extended_image.inner = <<ClaimedNew(image.w), ClaimedNew(image.h)>>
            /\ extended_image.paste =
                   <<TruncDiv(TargetW - extended_image.inner[1], 2),
                     TruncDiv(TargetH - extended_image.inner[2], 2)>>
            /\ (image = ExampleImage /\ cfg = ExampleConfig)
                   => (/\ About(extended_image.inner[1], 614)
                       /\ About(extended_image.inner[2], 461)
                       /\ About(extended_image.paste[1], 205)
                       /\ About(extended_image.paste[2], 281)))

C3_Witness ==
    /\ pc = "extended"
    /\ image = ExampleImage
    /\ cfg = ExampleConfig
    /\ extended_image.inner = <<614, 460>>
    /\ extended_image.paste = <<205, 282>>

\* C4: invert_mask returns a single-channel mask of the same size whose every pixel
\* is 255 minus the 8-bit luminance of the pixel it was given
C4_InvertPixelwise ==
    \A i \in DOMAIN log :
        log[i].stage = "Inverter"
            => LET m == log[i].in
                   r == log[i].out
               IN  /\ r.mode = "L"
                   /\ r.w = m.w
                   /\ r.h = m.h
                   /\ DOMAIN r.px = Pixels(m.w, m.h)
                   /\ \A p \in Pixels(m.w, m.h) :
                         /\ r.px[p] + ConvertLPixel(m.mode, m.px[p]) = 255
                         /\ m.mode = "1" => (r.px[p] = 255 <=> m.px[p] = 0)

C4_Witness ==
    /\ pc = "inverted"
    /\ log[1].in.mode = "RGB"
    /\ \E p \in Pixels(log[1].in.w, log[1].in.h) :
          log[1].in.px[p] = <<10, 200, 30>> /\ mask_image.px[p] = 131

\* C5: for a mask (single channel, 8 bits: mode "1" or "L"), inverting twice gives
\* back every pixel of the mask
C5_DoubleInvert ==
    (pc = "reinverted" /\ log[1].in.mode \in {"1", "L"})
        => (/\ mask_image.w = log[1].in.w
            /\ mask_image.h = log[1].in.h
            /\ mask_image.px = log[1].in.px)

C5_Witness ==
    /\ pc = "reinverted"
    /\ log[1].in.mode = "L"
    /\ log[2].in = log[1].out
    /\ \E p \in Pixels(mask_image.w, mask_image.h) :
          log[1].in.px[p] = 128 /\ log[1].out.px[p] = 127 /\ mask_image.px[p] = 128

\* C6: when the detector returns no box, the run fails with a NoDetection error
\* and the segmenter is never invoked
C6_NoDetectionRaised ==
    (bboxes.kind = "boxes" /\ bboxes.list = <<>>)
        => (pc = "failed" /\ err = "NoDetection" /\ ~Called("Synthesizer"))

\* C7: extend_image fails with an InvalidDimensions error, returning no image, when
\* the source has a zero side or a target is not positive
C7_InvalidDimensionsRaised ==
    (pc # "opened" /\ (image.w = 0 \/ image.h = 0 \/ TargetW <= 0 \/ TargetH <= 0))
        => (pc = "failed" /\ err = "InvalidDimensions" /\ extended_image = NoValue)

\* C8: an image and a mask of different sizes make the run fail with a
\* DimensionMismatch error before the diffusion pipeline is called
C8_MismatchFailsFast ==
    (pc # "inverted" /\ (extended_image.w # mask_image.w \/ extended_image.h # mask_image.h))
        => (pc = "failed" /\ err = "DimensionMismatch" /\ ~Called("Invoker"))

\* C9: a run that failed has persisted no output file
C9_NoPartialOutput == pc = "failed" => files = {}

StageOrder == <<"Compositor", "Locator", "Synthesizer", "Inverter", "Invoker">>

\* C10: the stages run at most once each, in order, each after the one before it
\* returned; detector and segmenter get the composited image, the Invoker gets
\* the composited image and the inverted mask
C10_StrictSequence ==
    /\ Len(log) <= Len(StageOrder)
    /\ \A i \in DOMAIN log : log[i].stage = StageOrder[i]
    /\ \A i \in 1..(Len(log) - 1) : log[i].out.kind # "raised"
    /\ Len(log) >= 2 =>
          /\ log[1].in = image
          /\ log[1].out.origin = "extended"
          /\ log[2].in = log[1].out
    /\ Len(log) >= 3 =>
          /\ log[3].in.image = log[1].out
          /\ log[3].in.box = log[2].out
    /\ Len(log) >= 4 => log[4].in = log[3].out
    /\ Len(log) >= 5 =>
          /\ log[5].in.image = log[1].out
          /\ log[5].in.mask_image = log[4].out
          /\ log[5].in.mask_image # log[3].out

C10_Witness ==
    /\ pc = "done"
    /\ Len(log) = 5
    /\ log[5].in.image = extended_image
    /\ log[5].in.mask_image = invert_mask(log[3].out)

====
